---- MODULE Spec2Model ----
(***************************************************************************)
(* A model of cms::test::FakeTimers (FakeTimers.hpp): the registry of      *)
(* timer slots, the virtual clock, the per-quantum expiry sweep and the    *)
(* queue of pended function calls.                                         *)
(*                                                                         *)
(* Durations are integers (the code's std::chrono::nanoseconds counts).    *)
(* Pointers (name, context) and std::function values (callback, func) are  *)
(* small integers, 0 standing for nullptr.  Handles are 1-based indices    *)
(* into mTimers, as in the code; TLA+ sequences are 1-based too, so the    *)
(* code's slot (handle - 1) is mTimers[handle] here.                       *)
(*                                                                         *)
(* Every public method is one action that carries out the whole call,      *)
(* callbacks included.  The methods themselves are operators on an engine  *)
(* record (the fields of the object plus the history the properties read)  *)
(* that return the engine after the call and the value returned.           *)
(***************************************************************************)
EXTENDS Integers, Sequences, FiniteSets, TLC

VARIABLES
    mTimers,        \* std::vector<Timer>
    capacity,       \* mTimers.capacity()
    mSysTickPeriod, \* const Duration, set by the constructor
    mCurrent,       \* Duration: the virtual clock
    mPendQueue,     \* std::queue<InternalPendable>
    fault,          \* "none", or how the process ended ("assert", "throw")
    last,           \* the latest call: its name, arguments and return value, and
                    \* the object as the call found it (kept by SpecCalls only)
    log,            \* what the latest call invoked, in order (MoveTimeForward/Tick)
    hist,           \* per slot: history of the timer in it (see DefaultHist)
    grid,           \* history: every amount of time moved so far was a multiple
                    \* of mSysTickPeriod
    pc,             \* where a MoveTimeForward call taken loop pass by loop pass
                    \* is: "idle" (no call), "drain" (in ExecutePendables),
                    \* "step" (in the stepping loop); SpecTermination only
    remainingTime   \* the local variable remaining of that call

vars == <<mTimers, capacity, mSysTickPeriod, mCurrent, mPendQueue, fault, last, log, hist, grid,
          pc, remainingTime>>

(***************************************************************************)
(* Bounds of the model.                                                    *)
(***************************************************************************)
\* The constructor reserves 25 slots; the model runs the same code on a
\* registry that starts with InitialSlots slots, so that a full registry and
\* its growth are within reach.
InitialSlots == 1
\* TimerCreate is not offered when it would grow the registry beyond MaxSlots.
MaxSlots == 1
\* The sysTickPeriod given to the constructor (10 ms by default): with 2 a
\* duration can be off the tick grid.
SysTickPeriod == 2
\* MoveTimeForward/Tick are not offered when they would pass MaxTime.
MaxTime == 6
\* Periods given to TimerCreate/TimerChangePeriod range over -1..MaxPeriod.
MaxPeriod == 4
\* Amounts given to MoveTimeForward range over -1..MaxAdvance.
MaxAdvance == 4
\* PendFunctionCall is not offered when MaxPend calls are queued.
MaxPend == 2
\* Contexts and parameters range over 1..MaxContext.
MaxContext == 2
\* SpecRegistry lets TimerCreate grow the registry up to MaxRegistry slots.
MaxRegistry == 2

Behaviors == {"SingleShot", "AutoReload"}
Names == {1}
Contexts == 1..MaxContext
Periods == -1..MaxPeriod
Amounts == -1..MaxAdvance
Handles == 0..(MaxSlots + 1)

\* Callback values: 0 is nullptr, 1 is a callback that only reports the call
\* (the tests' testCallback); the others call back into the object (see
\* RunCallback).
PlainCallbacks == {0, 1}
ReentrantCallbacks == {2, 3, 4, 5}
SelfStartCallbacks == {6, 7, 8}
OtherTimerCallbacks == {9, 10}
\* Pendable values: 0 is nullptr, 1 is a function that only reports the call.
PlainPendables == {0, 1}
ReentrantPendables == {2}
StartingPendables == {3}
RepeatingPendables == {4}

Min(a, b) == IF a < b THEN a ELSE b

(***************************************************************************)
(* struct Timer and its default member initialisers.                       *)
(***************************************************************************)
Timer == [name |-> 0, period |-> 0, behavior |-> "SingleShot", context |-> 0,
          callback |-> 0, handle |-> 0, allocated |-> FALSE, next |-> 0]

(***************************************************************************)
(* History of the timer in a slot, kept beside the slot for the            *)
(* properties; the code has no such data.                                  *)
(*   st          the latest of these events on the timer: "none" (no       *)
(*               timer), "fresh" (TimerCreate), "started" (TimerStart or   *)
(*               TimerReset), "reperiod" (TimerChangePeriod), "stopped"    *)
(*               (TimerStop)                                               *)
(*   at          the clock value at that event                             *)
(*   fires       expiries (the "fire away" branch) since that event        *)
(*   anchor      the clock value when next was last set to now + period    *)
(*   startFires  expiries since the latest TimerStart/TimerReset (or the   *)
(*               creation), TimerChangePeriod not counted as a start       *)
(*   steady      TimerSetBehavior was not called since the creation        *)
(***************************************************************************)
DefaultHist == [st |-> "none", at |-> 0, fires |-> 0, anchor |-> 0, startFires |-> 0,
                steady |-> TRUE]

(***************************************************************************)
(* A callback that makes the vector reallocate leaves ConsiderFiringTimer  *)
(* and the range-for of MoveTimeForward with a reference and iterators     *)
(* into storage that was freed: undefined behaviour.  What a build makes   *)
(* of it is one of                                                         *)
(*   "stale"  the freed storage still reads as the elements that were      *)
(*            moved out of it (their callbacks empty): the rest of the     *)
(*            sweep reads and writes that storage and not the registry;    *)
(*   "crash"  the process ends.                                            *)
(***************************************************************************)
UBOutcomes == {"stale", "crash"}

\* The engine: the object's fields and the history, as one value; ub is the
\* outcome of undefined behaviour in this call, stale says that the sweep
\* in progress has lost the registry, and steps lists the clock steps taken
\* (this_delta of each pass of the stepping loop).
Eng == [mTimers |-> mTimers, capacity |-> capacity, mCurrent |-> mCurrent,
        mPendQueue |-> mPendQueue, fault |-> fault, log |-> log, hist |-> hist,
        grid |-> grid, ub |-> "crash", stale |-> FALSE, steps |-> <<>>]

\* A call's outcome: the engine after it and the value it returns.
R(e, ret) == [e |-> e, ret |-> ret]

\* A failed assert() ends the process: the engine is left as it was.
AssertFail(e) == [e EXCEPT !.fault = "assert"]

(***************************************************************************)
(* mTimers.at(index) with the code's 0-based index.                        *)
(***************************************************************************)
InRange(e, index) == index >= 0 /\ index < Len(e.mTimers)
At(e, index) == e.mTimers[index + 1]

(***************************************************************************)
(* FindAvailableTimer: the index of the first slot not allocated, else of  *)
(* a slot appended (emplace_back; a full vector reallocates, doubling its  *)
(* capacity).                                                              *)
(***************************************************************************)
FreeIndexes(e) == {i \in 0..(Len(e.mTimers) - 1) : ~At(e, i).allocated}

\* A slip: the first slot is taken, free or not.
FindAvailableTimer_AlwaysFirst(e) == R(e, 0)

\* A slip: the last free slot is taken.
FindAvailableTimer_HighestFree(e) ==
    IF FreeIndexes(e) # {}
    THEN R(e, CHOOSE i \in FreeIndexes(e) : \A j \in FreeIndexes(e) : i >= j)
    ELSE R([e EXCEPT !.mTimers = Append(@, Timer),
                     !.hist = Append(@, DefaultHist),
                     !.capacity = IF Len(e.mTimers) = @ THEN 2 * @ ELSE @],
           Len(e.mTimers))

\* A slip: the timers are not carried over when the vector grows.
FindAvailableTimer_GrowthLosesTimers(e) ==
    IF FreeIndexes(e) # {}
    THEN R(e, CHOOSE i \in FreeIndexes(e) : \A j \in FreeIndexes(e) : i <= j)
    ELSE R([e EXCEPT !.mTimers = [i \in 1..(Len(e.mTimers) + 1) |-> Timer],
                     !.hist = Append(@, DefaultHist),
                     !.capacity = IF Len(e.mTimers) = @ THEN 2 * @ ELSE @],
           Len(e.mTimers))

FindAvailableTimer(e) ==
    IF FreeIndexes(e) # {}
    THEN R(e, CHOOSE i \in FreeIndexes(e) : \A j \in FreeIndexes(e) : i <= j)
    ELSE R([e EXCEPT !.mTimers = Append(@, Timer),
                     !.hist = Append(@, DefaultHist),
                     !.capacity = IF Len(e.mTimers) = @ THEN 2 * @ ELSE @],
           Len(e.mTimers))

(***************************************************************************)
(* TimerCreate                                                             *)
(***************************************************************************)
\* A slip: the period is not held to the tick grid.
PeriodAccepted_AnyPositive(period) == ~(period <= 0)

\* The two checks that precede the allocation ("return false" is handle 0).
PeriodAccepted(period) == ~(period <= 0) /\ ~(period % mSysTickPeriod # 0)

TimerCreate(e, timerName, period, behavior, context, callback) ==
    IF ~PeriodAccepted(period) THEN R(e, 0)
    ELSE LET f == FindAvailableTimer(e)
             newTimerIndex == f.ret
             newTimer == [name |-> timerName, period |-> period, behavior |-> behavior,
                          context |-> context, callback |-> callback,
                          allocated |-> TRUE, handle |-> newTimerIndex + 1, next |-> 0]
         IN R([f.e EXCEPT !.mTimers[newTimerIndex + 1] = newTimer,
                          !.hist[newTimerIndex + 1] =
                              [DefaultHist EXCEPT !.st = "fresh", !.at = e.mCurrent]],
              newTimer.handle)

(***************************************************************************)
(* TimerDelete                                                             *)
(***************************************************************************)
\* A slip: a slot that is not allocated is refused.
TimerDelete_ChecksAllocated(e, handle) ==
    IF handle > Len(e.mTimers) THEN R(e, FALSE)
    ELSE IF handle = 0 THEN R(e, FALSE)
    ELSE IF ~At(e, handle - 1).allocated THEN R(e, FALSE)
    ELSE R([e EXCEPT !.mTimers[handle] = Timer, !.hist[handle] = DefaultHist], TRUE)

\* A slip: the slot is released with the timer's fields left in it.
TimerDelete_KeepsFields(e, handle) ==
    IF handle > Len(e.mTimers) THEN R(e, FALSE)
    ELSE IF handle = 0 THEN R(e, FALSE)
    ELSE R([e EXCEPT !.mTimers[handle].allocated = FALSE, !.hist[handle] = DefaultHist],
           TRUE)

TimerDelete(e, handle) ==
    IF handle > Len(e.mTimers) THEN R(e, FALSE)
    ELSE IF handle = 0 THEN R(e, FALSE)
    ELSE LET index == handle - 1
         IN R([e EXCEPT !.mTimers[index + 1] = Timer,
                        !.hist[index + 1] = DefaultHist],
              TRUE)

(***************************************************************************)
(* TimerStart, and TimerReset which calls it                               *)
(***************************************************************************)
\* A slip: a running timer keeps the expiry it had.
StartExpiry_KeepsSchedule(e, timer) ==
    IF timer.next # 0 THEN timer.next ELSE e.mCurrent + timer.period

\* timer.next = mCurrent + timer.period
StartExpiry(e, timer) == e.mCurrent + timer.period

TimerStart(e, handle) ==
    IF handle > Len(e.mTimers) THEN R(e, FALSE)
    ELSE IF handle = 0 THEN R(e, FALSE)
    ELSE LET timer == At(e, handle - 1)
         IN IF timer.handle # handle THEN R(AssertFail(e), FALSE)
            ELSE R([e EXCEPT !.mTimers[handle].next = StartExpiry(e, timer),
                             !.hist[handle] =
                                 [@ EXCEPT !.st = "started", !.at = e.mCurrent, !.fires = 0,
                                           !.anchor = e.mCurrent, !.startFires = 0]],
                   TRUE)

TimerReset(e, handle) == TimerStart(e, handle)

(***************************************************************************)
(* TimerStop                                                               *)
(***************************************************************************)
\* A slip: the timer is reported stopped and keeps its expiry.
TimerStop_KeepsExpiry(e, handle) ==
    IF handle > Len(e.mTimers) THEN R(e, FALSE)
    ELSE IF handle = 0 THEN R(e, FALSE)
    ELSE LET timer == At(e, handle - 1)
         IN IF timer.handle # handle THEN R(AssertFail(e), FALSE)
            ELSE R([e EXCEPT !.hist[handle] =
                                 [@ EXCEPT !.st = "stopped", !.at = e.mCurrent,
                                           !.fires = 0]],
                   TRUE)

TimerStop(e, handle) ==
    IF handle > Len(e.mTimers) THEN R(e, FALSE)
    ELSE IF handle = 0 THEN R(e, FALSE)
    ELSE LET timer == At(e, handle - 1)
         IN IF timer.handle # handle THEN R(AssertFail(e), FALSE)
            ELSE R([e EXCEPT !.mTimers[handle].next = 0,
                             !.hist[handle] =
                                 [@ EXCEPT !.st = "stopped", !.at = e.mCurrent,
                                           !.fires = 0]],
                   TRUE)

(***************************************************************************)
(* TimerChangePeriod                                                       *)
(***************************************************************************)
\* A slip: the period is changed and the expiry is left as it was.
TimerChangePeriod_KeepsExpiry(e, handle, newPeriod) ==
    IF handle > Len(e.mTimers) THEN R(e, FALSE)
    ELSE IF handle = 0 THEN R(e, FALSE)
    ELSE IF newPeriod <= 0 THEN R(e, FALSE)
    ELSE LET timer == At(e, handle - 1)
         IN IF timer.handle # handle THEN R(AssertFail(e), FALSE)
            ELSE R([e EXCEPT !.mTimers[handle].period = newPeriod,
                             !.hist[handle] =
                                 [@ EXCEPT !.st = "reperiod", !.at = e.mCurrent,
                                           !.fires = 0, !.anchor = e.mCurrent]],
                   TRUE)

TimerChangePeriod(e, handle, newPeriod) ==
    IF handle > Len(e.mTimers) THEN R(e, FALSE)
    ELSE IF handle = 0 THEN R(e, FALSE)
    ELSE IF newPeriod <= 0 THEN R(e, FALSE)
    ELSE LET timer == At(e, handle - 1)
         IN IF timer.handle # handle THEN R(AssertFail(e), FALSE)
            ELSE R([e EXCEPT !.mTimers[handle].period = newPeriod,
                             !.mTimers[handle].next = e.mCurrent + newPeriod,
                             !.hist[handle] =
                                 [@ EXCEPT !.st = "reperiod", !.at = e.mCurrent,
                                           !.fires = 0, !.anchor = e.mCurrent]],
                   TRUE)

(***************************************************************************)
(* TimerSetBehavior, TimerSetContext                                       *)
(***************************************************************************)
\* A slip: the new behavior comes with a new expiry, as TimerStart gives.
TimerSetBehavior_Restarts(e, handle, behavior) ==
    IF handle > Len(e.mTimers) THEN R(e, FALSE)
    ELSE IF handle = 0 THEN R(e, FALSE)
    ELSE LET timer == At(e, handle - 1)
         IN IF timer.handle # handle THEN R(AssertFail(e), FALSE)
            ELSE R([e EXCEPT !.mTimers[handle].behavior = behavior,
                             !.mTimers[handle].next = e.mCurrent + timer.period,
                             !.hist[handle].steady = FALSE],
                   TRUE)

TimerSetBehavior(e, handle, behavior) ==
    IF handle > Len(e.mTimers) THEN R(e, FALSE)
    ELSE IF handle = 0 THEN R(e, FALSE)
    ELSE LET timer == At(e, handle - 1)
         IN IF timer.handle # handle THEN R(AssertFail(e), FALSE)
            ELSE R([e EXCEPT !.mTimers[handle].behavior = behavior,
                             !.hist[handle].steady = FALSE],
                   TRUE)

\* A slip: the call reports success and stores nothing.
TimerSetContext_KeepsContext(e, handle, newContext) ==
    IF handle > Len(e.mTimers) THEN R(e, FALSE)
    ELSE IF handle = 0 THEN R(e, FALSE)
    ELSE LET timer == At(e, handle - 1)
         IN IF timer.handle # handle THEN R(AssertFail(e), FALSE)
            ELSE R(e, TRUE)

TimerSetContext(e, handle, newContext) ==
    IF handle > Len(e.mTimers) THEN R(e, FALSE)
    ELSE IF handle = 0 THEN R(e, FALSE)
    ELSE LET timer == At(e, handle - 1)
         IN IF timer.handle # handle THEN R(AssertFail(e), FALSE)
            ELSE R([e EXCEPT !.mTimers[handle].context = newContext], TRUE)

(***************************************************************************)
(* TimerIsActive (a handle outside the vector makes at() throw)            *)
(***************************************************************************)
\* A slip: every allocated timer is reported active.
TimerIsActive_AllocatedOnly(e, handle) ==
    IF ~InRange(e, handle - 1) THEN R([e EXCEPT !.fault = "throw"], FALSE)
    ELSE R(e, At(e, handle - 1).allocated)

TimerIsActive(e, handle) ==
    IF ~InRange(e, handle - 1) THEN R([e EXCEPT !.fault = "throw"], FALSE)
    ELSE LET timer == At(e, handle - 1)
         IN IF ~timer.allocated THEN R(e, FALSE)
            ELSE R(e, timer.next # 0)

(***************************************************************************)
(* The attribute accessors (const; at() throws outside the                 *)
(* vector, then the two asserts)                                           *)
(***************************************************************************)
\* A slip: the accessor returns what the slot holds, timer or not.
TimerGetContext_NoAsserts(e, handle) ==
    IF ~InRange(e, handle - 1) THEN R([e EXCEPT !.fault = "throw"], 0)
    ELSE R(e, At(e, handle - 1).context)

TimerGetContext(e, handle) ==
    IF ~InRange(e, handle - 1) THEN R([e EXCEPT !.fault = "throw"], 0)
    ELSE LET timer == At(e, handle - 1)
         IN IF timer.handle # handle THEN R(AssertFail(e), 0)
            ELSE IF ~timer.allocated THEN R(AssertFail(e), 0)
            ELSE R(e, timer.context)

TimerGetName(e, handle) ==
    IF ~InRange(e, handle - 1) THEN R([e EXCEPT !.fault = "throw"], 0)
    ELSE LET timer == At(e, handle - 1)
         IN IF timer.handle # handle THEN R(AssertFail(e), 0)
            ELSE IF ~timer.allocated THEN R(AssertFail(e), 0)
            ELSE R(e, timer.name)

TimerGetPeriod(e, handle) ==
    IF ~InRange(e, handle - 1) THEN R([e EXCEPT !.fault = "throw"], 0)
    ELSE LET timer == At(e, handle - 1)
         IN IF timer.handle # handle THEN R(AssertFail(e), 0)
            ELSE IF ~timer.allocated THEN R(AssertFail(e), 0)
            ELSE R(e, timer.period)

TimerGetBehavior(e, handle) ==
    IF ~InRange(e, handle - 1) THEN R([e EXCEPT !.fault = "throw"], "SingleShot")
    ELSE LET timer == At(e, handle - 1)
         IN IF timer.handle # handle THEN R(AssertFail(e), "SingleShot")
            ELSE IF ~timer.allocated THEN R(AssertFail(e), "SingleShot")
            ELSE R(e, timer.behavior)

\* A slip: the expiry is returned whether the timer is active or not.
TimerGetExpiryTime_AlwaysNext(e, handle) ==
    IF ~InRange(e, handle - 1) THEN R([e EXCEPT !.fault = "throw"], -1)
    ELSE LET timer == At(e, handle - 1)
         IN IF timer.handle # handle THEN R(AssertFail(e), -1)
            ELSE IF ~timer.allocated THEN R(AssertFail(e), -1)
            ELSE R(e, timer.next)

TimerGetExpiryTime(e, handle) ==
    IF ~InRange(e, handle - 1) THEN R([e EXCEPT !.fault = "throw"], -1)
    ELSE LET timer == At(e, handle - 1)
         IN IF timer.handle # handle THEN R(AssertFail(e), -1)
            ELSE IF ~timer.allocated THEN R(AssertFail(e), -1)
            ELSE IF TimerIsActive(e, handle).ret THEN R(e, timer.next)
            ELSE R(e, -1)

(***************************************************************************)
(* PendFunctionCall                                                        *)
(***************************************************************************)
PendFunctionCall(e, func, context, param2) ==
    R([e EXCEPT !.mPendQueue =
                    Append(@, [func |-> func, context |-> context, param2 |-> param2])],
      TRUE)

(***************************************************************************)
(* What MoveTimeForward reports to the log: a pended function it ran, or   *)
(* a timer that expired (invoked: the callback was not nullptr and was     *)
(* called with (handle, context)).  An expiry carries the clock value      *)
(* before the step (prev), the expiry the timer had (next) and the slot's  *)
(* history at that moment.                                                 *)
(***************************************************************************)
PendEvent(e, internal) ==
    [kind |-> "pend", who |-> internal.func, context |-> internal.context,
     param2 |-> internal.param2, at |-> e.mCurrent, prev |-> e.mCurrent,
     invoked |-> TRUE, period |-> 0, behavior |-> "SingleShot", h |-> DefaultHist,
     next |-> 0]

FireEvent(e, index, prev) ==
    [kind |-> "fire", who |-> At(e, index).handle, context |-> At(e, index).context,
     param2 |-> 0, at |-> e.mCurrent, prev |-> prev,
     invoked |-> At(e, index).callback # 0, period |-> At(e, index).period,
     behavior |-> At(e, index).behavior, h |-> e.hist[index + 1],
     next |-> At(e, index).next]

(***************************************************************************)
(* The bodies of the callbacks and of the pended functions: user code.     *)
(* Value 1 only reports the call, which the log has already recorded.      *)
(*   callback 2  deletes its own timer and creates an auto-reload timer    *)
(*   callback 3  creates a single-shot timer                               *)
(*   callback 4  deletes its own timer                                     *)
(*   callback 5  stops its own timer                                       *)
(*   callback 6  starts its own timer                                      *)
(*   callback 7  resets its own timer                                      *)
(*   callback 8  changes the period of its own timer to one tick           *)
(*   callback 9  stops the other timer (Other: handle 2 for 1, 1 for 2)    *)
(*   callback 10 deletes the other timer                                   *)
(* The timers they create have one tick as period and callback 1.          *)
(*   pended function 2  pends function 1 with its own arguments            *)
(*   pended function 3  starts the timer whose handle is param2            *)
(*   pended function 4  pends itself again, with context 1 or 2 in turn    *)
(***************************************************************************)
Other(handle) == IF handle \in {1, 2} THEN 3 - handle ELSE 0

RunCallback(e, callback, handle, context) ==
    CASE callback = 2 ->
           TimerCreate(TimerDelete(e, handle).e, 1, mSysTickPeriod, "AutoReload", context, 1).e
      [] callback = 3 ->
           TimerCreate(e, 1, mSysTickPeriod, "SingleShot", context, 1).e
      [] callback = 4 ->
           TimerDelete(e, handle).e
      [] callback = 5 ->
           TimerStop(e, handle).e
      [] callback = 6 ->
           TimerStart(e, handle).e
      [] callback = 7 ->
           TimerReset(e, handle).e
      [] callback = 8 ->
           TimerChangePeriod(e, handle, mSysTickPeriod).e
      [] callback = 9 ->
           TimerStop(e, Other(handle)).e
      [] callback = 10 ->
           TimerDelete(e, Other(handle)).e
      [] OTHER -> e

RunPendable(e, func, context, param2) ==
    CASE func = 2 -> PendFunctionCall(e, 1, context, param2).e
      [] func = 3 -> TimerStart(e, param2).e
      [] func = 4 -> PendFunctionCall(e, 4, IF context = 1 THEN 2 ELSE 1, param2).e
      [] OTHER -> e

(***************************************************************************)
(* ConsiderFiringTimer(Timer& timer): timer is a reference to the slot, so *)
(* what follows the callback reads and writes the slot as the callback     *)
(* left it.                                                                *)
(***************************************************************************)
\* A slip: a timer fires one tick before it is due.
Due_OneTickEarly(e, timer) == e.mCurrent + mSysTickPeriod >= timer.next

Due(e, timer) == e.mCurrent >= timer.next

\* A slip: every timer reloads.
NextAfterFiring_AlwaysReload(e, timer) == e.mCurrent + timer.period

\* The value next gets once the timer has fired.
NextAfterFiring(e, timer) ==
    IF timer.behavior = "AutoReload" THEN e.mCurrent + timer.period ELSE 0

\* A slip: the expiry that follows is set before the callback is called.
ConsiderFiringTimer_PolicyFirst(e, index, prev) ==
    LET timer == At(e, index)
    IN IF ~timer.allocated THEN e
       ELSE IF timer.period <= 0 THEN e
       ELSE IF timer.next <= 0 THEN e
       ELSE IF Due(e, timer)
       THEN LET counted == [e EXCEPT !.hist[index + 1].fires = @ + 1,
                                     !.hist[index + 1].startFires = @ + 1]
                fired == [counted EXCEPT
                             !.log = Append(@, FireEvent(counted, index, prev)),
                             !.mTimers[index + 1].next = NextAfterFiring(counted, timer)]
            IN IF timer.callback # 0
               THEN RunCallback(fired, timer.callback, timer.handle, timer.context)
               ELSE fired
       ELSE e

ConsiderFiringTimer(e, index, prev) ==
    LET timer == At(e, index)
    IN IF ~timer.allocated THEN e
       ELSE IF timer.period <= 0 THEN e
       ELSE IF timer.next <= 0 THEN e
       ELSE IF Due(e, timer)
       THEN LET counted == [e EXCEPT !.hist[index + 1].fires = @ + 1,
                                     !.hist[index + 1].startFires = @ + 1]
                fired == [counted EXCEPT !.log = Append(@, FireEvent(counted, index, prev))]
                called == IF timer.callback # 0
                          THEN RunCallback(fired, timer.callback, timer.handle, timer.context)
                          ELSE fired
                after == At(called, index)
            IN IF called.fault # "none" THEN called
               ELSE IF called.capacity # e.capacity
               THEN IF called.ub = "crash"
                    THEN [called EXCEPT !.fault = "ub"]
                    ELSE [called EXCEPT !.stale = TRUE]
               ELSE [called EXCEPT
                        !.mTimers[index + 1].next = NextAfterFiring(called, after),
                        !.hist[index + 1].anchor =
                            IF after.behavior = "AutoReload" THEN called.mCurrent ELSE @]
       ELSE e

(***************************************************************************)
(* ExecutePendables                                                        *)
(***************************************************************************)
\* A slip: only the entries that are queued when the drain begins are run.
RECURSIVE ExecutePendables_Counted(_, _)
ExecutePendables_Counted(e, count) ==
    IF e.fault # "none" \/ count = 0 THEN e
    ELSE LET internal == Head(e.mPendQueue)
             called == IF internal.func # 0
                       THEN RunPendable([e EXCEPT !.log = Append(@, PendEvent(e, internal))],
                                        internal.func, internal.context, internal.param2)
                       ELSE e
         IN ExecutePendables_Counted([called EXCEPT !.mPendQueue = Tail(@)], count - 1)

ExecutePendables_OnePass(e) == ExecutePendables_Counted(e, Len(e.mPendQueue))

\* One pass of the loop of ExecutePendables (the queue is not empty).
DrainPass(e) ==
    LET internal == Head(e.mPendQueue)
        called == IF internal.func # 0
                  THEN RunPendable([e EXCEPT !.log = Append(@, PendEvent(e, internal))],
                                   internal.func, internal.context, internal.param2)
                  ELSE e
    IN [called EXCEPT !.mPendQueue = Tail(@)]

RECURSIVE ExecutePendables(_)
ExecutePendables(e) ==
    IF e.fault # "none" \/ e.mPendQueue = <<>> THEN e
    ELSE LET internal == Head(e.mPendQueue)
             called == IF internal.func # 0
                       THEN RunPendable([e EXCEPT !.log = Append(@, PendEvent(e, internal))],
                                        internal.func, internal.context, internal.param2)
                       ELSE e
         IN ExecutePendables([called EXCEPT !.mPendQueue = Tail(@)])

(***************************************************************************)
(* MoveTimeForward: the sweep over the slots (the range-for takes begin    *)
(* and end once, when it starts), the stepping loop, and the method.       *)
(***************************************************************************)
\* A slip: the slots are taken from the last to the first.
RECURSIVE Sweep_Descending(_, _, _, _)
Sweep_Descending(e, index, end, prev) ==
    IF e.fault # "none" \/ index >= end THEN e
    ELSE IF e.stale THEN [e EXCEPT !.stale = FALSE]
    ELSE Sweep_Descending(ConsiderFiringTimer(e, end - 1, prev), index, end - 1, prev)

RECURSIVE Sweep(_, _, _, _)
Sweep(e, index, end, prev) ==
    IF e.fault # "none" \/ index >= end THEN e
    ELSE IF e.stale THEN [e EXCEPT !.stale = FALSE]
    ELSE Sweep(ConsiderFiringTimer(e, index, prev), index + 1, end, prev)

\* A slip: every step is a whole tick, also the last one of an amount that
\* is no multiple of the tick period.
ThisDelta_FullTick(remaining) == mSysTickPeriod

\* A slip: the whole amount is taken in one step, with one sweep.
ThisDelta_WholeAmount(remaining) == remaining

ThisDelta(remaining) == Min(remaining, mSysTickPeriod)

\* One pass of the stepping loop (remaining is positive).
SteppingPass(e, left) ==
    LET this_delta == ThisDelta(left)
        stepped == [e EXCEPT !.mCurrent = @ + this_delta,
                             !.steps = Append(@, this_delta)]
    IN Sweep(stepped, 0, Len(stepped.mTimers), e.mCurrent)

RECURSIVE Stepping(_, _)
Stepping(e, remaining) ==
    IF e.fault # "none" \/ ~(remaining > 0) THEN e
    ELSE LET this_delta == ThisDelta(remaining)
             stepped == [e EXCEPT !.mCurrent = @ + this_delta,
                                  !.steps = Append(@, this_delta)]
         IN Stepping(Sweep(stepped, 0, Len(stepped.mTimers), e.mCurrent),
                     remaining - this_delta)

\* History only: grid is lost by an amount that is not a multiple of the
\* tick period.
OffGrid(e, time) ==
    IF time > 0 /\ time % mSysTickPeriod # 0 THEN [e EXCEPT !.grid = FALSE] ELSE e

\* A slip: the loop is entered once whatever the amount.
MoveTimeForward_AtLeastOneStep(e, time) ==
    R(Stepping(ExecutePendables(OffGrid([e EXCEPT !.log = <<>>], time)),
               IF time > 0 THEN time ELSE mSysTickPeriod), TRUE)

\* A slip: the pended functions run once time has been moved.
MoveTimeForward_StepsFirst(e, time) ==
    R(ExecutePendables(Stepping(OffGrid([e EXCEPT !.log = <<>>], time), time)), TRUE)

\* A slip: nothing is done for an amount that moves no time.
MoveTimeForward_OnlyWhenMoving(e, time) ==
    IF time > 0
    THEN R(Stepping(ExecutePendables(OffGrid([e EXCEPT !.log = <<>>], time)), time), TRUE)
    ELSE R([e EXCEPT !.log = <<>>], TRUE)

MoveTimeForward(e, time) ==
    R(Stepping(ExecutePendables(OffGrid([e EXCEPT !.log = <<>>], time)), time), TRUE)

\* A slip: Tick moves the clock by one unit of Duration.
Tick_OneUnit(e) == MoveTimeForward(e, 1)

Tick(e) == MoveTimeForward(e, mSysTickPeriod)

GetCurrentInternalTime(e) == R(e, e.mCurrent)

(***************************************************************************)
(* The object after construction.                                          *)
(***************************************************************************)
Init ==
    /\ mTimers = [i \in 1..InitialSlots |-> Timer]
    /\ capacity = InitialSlots
    /\ mSysTickPeriod = SysTickPeriod
    /\ mCurrent = 0
    /\ mPendQueue = <<>>
    /\ fault = "none"
    /\ last = [op |-> "FakeTimers", args |-> <<>>, ret |-> TRUE,
               pre |-> [mTimers |-> mTimers, mCurrent |-> 0, mPendQueue |-> <<>>]]
    /\ log = <<>>
    /\ hist = [i \in 1..InitialSlots |-> DefaultHist]
    /\ grid = TRUE
    /\ pc = "idle"
    /\ remainingTime = 0

(***************************************************************************)
(* One action per public method: the driver makes the call.  The state     *)
(* after it is the engine the method returns.  A specification either      *)
(* keeps the history of the timers (rec = FALSE: hist, grid) or records    *)
(* each call with what it returned (rec = TRUE: last); keeping both makes  *)
(* the state space the product of the two.                                 *)
(***************************************************************************)
Call(rec, op, args, r) ==
    /\ mTimers' = r.e.mTimers
    /\ capacity' = r.e.capacity
    /\ mCurrent' = r.e.mCurrent
    /\ mPendQueue' = r.e.mPendQueue
    /\ fault' = r.e.fault
    /\ log' = IF op \in {"MoveTimeForward", "Tick"} THEN r.e.log ELSE <<>>
    /\ hist' = IF rec THEN [i \in DOMAIN r.e.mTimers |-> DefaultHist] ELSE r.e.hist
    /\ grid' = IF rec THEN TRUE ELSE r.e.grid
    /\ last' = IF rec
               THEN [op |-> op, args |-> args, ret |-> r.ret,
                     pre |-> [mTimers |-> mTimers, mCurrent |-> mCurrent,
                              mPendQueue |-> mPendQueue]]
               ELSE last
    /\ UNCHANGED <<mSysTickPeriod, pc, remainingTime>>

\* Not offered when the call would grow the registry beyond MaxSlots.
DoTimerCreate(rec, callbacks) ==
    /\ fault = "none"
    /\ \E n \in Names, p \in Periods, b \in Behaviors, c \in Contexts, cb \in callbacks :
          /\ Len(TimerCreate(Eng, n, p, b, c, cb).e.mTimers) <= MaxSlots
          /\ Call(rec, "TimerCreate", <<n, p, b, c, cb>>, TimerCreate(Eng, n, p, b, c, cb))

\* The same call, offered while the registry stays within MaxRegistry slots.
DoTimerCreateGrowing(rec, callbacks) ==
    /\ fault = "none"
    /\ \E n \in Names, p \in Periods, b \in Behaviors, c \in Contexts, cb \in callbacks :
          /\ Len(TimerCreate(Eng, n, p, b, c, cb).e.mTimers) <= MaxRegistry
          /\ Call(rec, "TimerCreate", <<n, p, b, c, cb>>, TimerCreate(Eng, n, p, b, c, cb))

DoTimerDelete(rec) ==
    /\ fault = "none"
    /\ \E h \in Handles : Call(rec, "TimerDelete", <<h>>, TimerDelete(Eng, h))

DoTimerStart(rec) ==
    /\ fault = "none"
    /\ \E h \in Handles : Call(rec, "TimerStart", <<h>>, TimerStart(Eng, h))

DoTimerStop(rec) ==
    /\ fault = "none"
    /\ \E h \in Handles : Call(rec, "TimerStop", <<h>>, TimerStop(Eng, h))

DoTimerReset(rec) ==
    /\ fault = "none"
    /\ \E h \in Handles : Call(rec, "TimerReset", <<h>>, TimerReset(Eng, h))

DoTimerChangePeriod(rec) ==
    /\ fault = "none"
    /\ \E h \in Handles, p \in Periods :
          Call(rec, "TimerChangePeriod", <<h, p>>, TimerChangePeriod(Eng, h, p))

DoTimerSetBehavior(rec) ==
    /\ fault = "none"
    /\ \E h \in Handles, b \in Behaviors :
          Call(rec, "TimerSetBehavior", <<h, b>>, TimerSetBehavior(Eng, h, b))

DoTimerSetContext(rec) ==
    /\ fault = "none"
    /\ \E h \in Handles, c \in Contexts :
          Call(rec, "TimerSetContext", <<h, c>>, TimerSetContext(Eng, h, c))

DoPendFunctionCall(rec, pendables) ==
    /\ fault = "none"
    /\ Len(mPendQueue) < MaxPend
    /\ \E f \in pendables, c \in Contexts, p \in Contexts :
          Call(rec, "PendFunctionCall", <<f, c, p>>, PendFunctionCall(Eng, f, c, p))

DoMoveTimeForward(rec, outcomes) ==
    /\ fault = "none"
    /\ \E t \in Amounts, u \in outcomes :
          /\ mCurrent + t <= MaxTime
          /\ Call(rec, "MoveTimeForward", <<t>>, MoveTimeForward([Eng EXCEPT !.ub = u], t))

DoTick(rec, outcomes) ==
    /\ fault = "none"
    /\ mCurrent + mSysTickPeriod <= MaxTime
    /\ \E u \in outcomes : Call(rec, "Tick", <<>>, Tick([Eng EXCEPT !.ub = u]))

(***************************************************************************)
(* MoveTimeForward taken one loop pass at a time, for what is claimed of   *)
(* its termination.  The log is not kept: it would grow with every pass.   *)
(***************************************************************************)
Pass(e) ==
    /\ mTimers' = e.mTimers
    /\ capacity' = e.capacity
    /\ mCurrent' = e.mCurrent
    /\ mPendQueue' = e.mPendQueue
    /\ fault' = e.fault
    /\ hist' = e.hist
    /\ grid' = e.grid
    /\ log' = <<>>
    /\ UNCHANGED <<mSysTickPeriod, last>>

EnterMoveTimeForward ==
    /\ pc = "idle" /\ fault = "none"
    /\ \E time \in Amounts :
          /\ mCurrent + time <= MaxTime
          /\ Pass(OffGrid(Eng, time))
          /\ remainingTime' = time
    /\ pc' = "drain"

DrainOne ==
    /\ pc = "drain" /\ fault = "none"
    /\ mPendQueue # <<>>
    /\ Pass(DrainPass(Eng))
    /\ UNCHANGED <<pc, remainingTime>>

DrainEnd ==
    /\ pc = "drain" /\ fault = "none"
    /\ mPendQueue = <<>>
    /\ pc' = "step"
    /\ UNCHANGED <<mTimers, capacity, mSysTickPeriod, mCurrent, mPendQueue, fault, last, log,
                   hist, grid, remainingTime>>

StepOne ==
    /\ pc = "step" /\ fault = "none"
    /\ remainingTime > 0
    /\ \E u \in UBOutcomes : Pass(SteppingPass([Eng EXCEPT !.ub = u], remainingTime))
    /\ remainingTime' = remainingTime - ThisDelta(remainingTime)
    /\ UNCHANGED pc

LeaveMoveTimeForward ==
    /\ pc = "step" /\ fault = "none"
    /\ ~(remainingTime > 0)
    /\ pc' = "idle"
    /\ remainingTime' = 0
    /\ UNCHANGED <<mTimers, capacity, mSysTickPeriod, mCurrent, mPendQueue, fault, last, log,
                   hist, grid>>

InMoveTimeForward == DrainOne \/ DrainEnd \/ StepOne \/ LeaveMoveTimeForward

(***************************************************************************)
(* Spec: the driver calls the timer methods and moves time in any order;   *)
(* the callbacks only report that they were called.  The history of the    *)
(* timers is kept.                                                         *)
(***************************************************************************)
Next ==
    \/ DoTimerCreate(FALSE, PlainCallbacks)
    \/ DoTimerDelete(FALSE)
    \/ DoTimerStart(FALSE)
    \/ DoTimerStop(FALSE)
    \/ DoTimerReset(FALSE)
    \/ DoTimerChangePeriod(FALSE)
    \/ DoTimerSetBehavior(FALSE)
    \/ DoTimerSetContext(FALSE)
    \/ DoMoveTimeForward(FALSE, {"crash"})
    \/ DoTick(FALSE, {"crash"})

Spec == Init /\ [][Next]_vars

(***************************************************************************)
(* SpecCalls: the same driver, each call recorded with its arguments, its  *)
(* return value and the object as the call found it.                       *)
(***************************************************************************)
NextCalls ==
    \/ DoTimerCreate(TRUE, PlainCallbacks)
    \/ DoTimerDelete(TRUE)
    \/ DoTimerStart(TRUE)
    \/ DoTimerStop(TRUE)
    \/ DoTimerReset(TRUE)
    \/ DoTimerChangePeriod(TRUE)
    \/ DoTimerSetBehavior(TRUE)
    \/ DoTimerSetContext(TRUE)
    \/ DoMoveTimeForward(TRUE, {"crash"})
    \/ DoTick(TRUE, {"crash"})

SpecCalls == Init /\ [][NextCalls]_vars

(***************************************************************************)
(* SpecPend: the driver pends function calls, creates and starts timers    *)
(* and moves time.                                                         *)
(***************************************************************************)
NextPend ==
    \/ DoPendFunctionCall(FALSE, PlainPendables)
    \/ DoTimerCreate(FALSE, PlainCallbacks)
    \/ DoTimerStart(FALSE)
    \/ DoMoveTimeForward(FALSE, {"crash"})
    \/ DoTick(FALSE, {"crash"})

SpecPend == Init /\ [][NextPend]_vars

(***************************************************************************)
(* SpecPendCalls: the pended functions may pend a function themselves;     *)
(* each call is recorded.                                                  *)
(***************************************************************************)
NextPendCalls ==
    \/ DoPendFunctionCall(TRUE, PlainPendables \cup ReentrantPendables)
    \/ DoMoveTimeForward(TRUE, {"crash"})
    \/ DoTick(TRUE, {"crash"})

SpecPendCalls == Init /\ [][NextPendCalls]_vars

(***************************************************************************)
(* SpecReentrant: the callbacks may create and delete timers; the history  *)
(* of the timers is kept.                                                  *)
(***************************************************************************)
NextReentrant ==
    \/ DoTimerCreate(FALSE, PlainCallbacks \cup ReentrantCallbacks)
    \/ DoTimerDelete(FALSE)
    \/ DoTimerStart(FALSE)
    \/ DoTimerStop(FALSE)
    \/ DoMoveTimeForward(FALSE, UBOutcomes)
    \/ DoTick(FALSE, UBOutcomes)

SpecReentrant == Init /\ [][NextReentrant]_vars

(***************************************************************************)
(* SpecRegistry: the driver creates timers in a registry that grows,       *)
(* deletes, starts and stops them; each call is recorded.                  *)
(***************************************************************************)
NextRegistry ==
    \/ DoTimerCreateGrowing(TRUE, PlainCallbacks)
    \/ DoTimerDelete(TRUE)
    \/ DoTimerStart(TRUE)
    \/ DoTimerStop(TRUE)

SpecRegistry == Init /\ [][NextRegistry]_vars

(***************************************************************************)
(* SpecSweep: the driver creates timers in a registry that grows, starts   *)
(* them and moves time; the history of the timers is kept.                 *)
(***************************************************************************)
NextSweep ==
    \/ DoTimerCreateGrowing(FALSE, {1})
    \/ DoTimerStart(FALSE)
    \/ DoMoveTimeForward(FALSE, {"crash"})

SpecSweep == Init /\ [][NextSweep]_vars

(***************************************************************************)
(* SpecSelfStart: the callbacks start or reset their own timer or change   *)
(* its period; the history of the timers is kept.                          *)
(***************************************************************************)
NextSelfStart ==
    \/ DoTimerCreate(FALSE, SelfStartCallbacks)
    \/ DoTimerStart(FALSE)
    \/ DoTimerStop(FALSE)
    \/ DoTimerSetBehavior(FALSE)
    \/ DoMoveTimeForward(FALSE, {"crash"})
    \/ DoTick(FALSE, {"crash"})

SpecSelfStart == Init /\ [][NextSelfStart]_vars

(***************************************************************************)
(* SpecOthers: two timers whose callbacks may stop or delete the other     *)
(* one; time moves by ticks, and the history of the timers is kept.        *)
(***************************************************************************)
NextOthers ==
    \/ DoTimerCreateGrowing(FALSE, {1} \cup OtherTimerCallbacks)
    \/ DoTimerStart(FALSE)
    \/ DoTick(FALSE, {"crash"})

SpecOthers == Init /\ [][NextOthers]_vars

(***************************************************************************)
(* SpecPendStart: timers are started by pended functions only; the         *)
(* history of the timers is kept.                                          *)
(***************************************************************************)
NextPendStart ==
    \/ DoPendFunctionCall(FALSE, StartingPendables)
    \/ DoTimerCreate(FALSE, {1})
    \/ DoTimerDelete(FALSE)
    \/ DoMoveTimeForward(FALSE, {"crash"})

SpecPendStart == Init /\ [][NextPendStart]_vars

(***************************************************************************)
(* SpecTermination: between the calls of MoveTimeForward the driver pends  *)
(* functions, which may pend functions themselves, and creates and starts  *)
(* timers, whose callbacks may create timers.  A call that has begun goes  *)
(* on while it has a pass to make.                                         *)
(***************************************************************************)
NextTermination ==
    \/ pc = "idle" /\ DoPendFunctionCall(FALSE, ReentrantPendables \cup RepeatingPendables)
    \/ pc = "idle" /\ DoTimerCreate(FALSE, {3})
    \/ pc = "idle" /\ DoTimerStart(FALSE)
    \/ EnterMoveTimeForward
    \/ DrainOne
    \/ DrainEnd
    \/ StepOne
    \/ LeaveMoveTimeForward

SpecTermination == Init /\ [][NextTermination]_vars /\ WF_vars(InMoveTimeForward)

(***************************************************************************)
(* Vocabulary of the properties.                                           *)
(***************************************************************************)
Slots == 1..Len(mTimers)
Live(i) == i \in Slots /\ mTimers[i].allocated
Armed(h) == h.st \in {"started", "reperiod"}
Fires == {k \in 1..Len(log) : log[k].kind = "fire"}
\* A period rounded up to a multiple of the tick period.
OnTicks(period) == ((period + mSysTickPeriod - 1) \div mSysTickPeriod) * mSysTickPeriod

(***************************************************************************)
(* C1.  A started single-shot timer expires exactly once when time has     *)
(* moved on by at least its period, whatever the number of calls that      *)
(* moved it, and not again.                                                *)
(***************************************************************************)
\* C1 as stated: a single-shot timer expires at most once after its latest
\* TimerStart/TimerReset (here already with amounts and periods on the tick
\* grid).
C1_Original ==
    \A i \in Slots :
        (Live(i) /\ mTimers[i].behavior = "SingleShot" /\ hist[i].steady
                 /\ grid /\ mTimers[i].period % mSysTickPeriod = 0)
            => hist[i].startFires <= 1

\* C1 as amended: a single-shot timer has expired exactly once when the clock
\* has reached the period after its latest TimerStart, TimerReset or
\* TimerChangePeriod, not at all before, and never a second time.
C1_SingleShotFiresOnce ==
    \A i \in Slots :
        (Live(i) /\ mTimers[i].behavior = "SingleShot" /\ hist[i].steady /\ Armed(hist[i]))
            => /\ hist[i].fires = IF mCurrent >= hist[i].at + mTimers[i].period THEN 1 ELSE 0
               /\ hist[i].fires = 1 => mTimers[i].next = 0

\* A single-shot timer that expired once, three periods after its start.
C1_Witness ==
    \E i \in Slots :
        /\ Live(i) /\ mTimers[i].behavior = "SingleShot" /\ hist[i].steady
        /\ hist[i].st = "started" /\ hist[i].fires = 1 /\ mTimers[i].callback # 0
        /\ mCurrent >= hist[i].at + 3 * mTimers[i].period

(***************************************************************************)
(* C2.  The number of expiries of a started auto-reload timer.             *)
(***************************************************************************)
\* C2 as stated: after any amounts of time, it is the time moved since the
\* start divided by the period (here already with a period on the tick grid).
C2_Original ==
    \A i \in Slots :
        (Live(i) /\ mTimers[i].behavior = "AutoReload" /\ hist[i].steady /\ Armed(hist[i])
                 /\ mTimers[i].period % mSysTickPeriod = 0)
            => hist[i].fires = (mCurrent - hist[i].at) \div mTimers[i].period

\* C2 as amended: when every amount was a multiple of the tick period, it is
\* the time moved since the start divided by the period rounded up to a
\* multiple of the tick period.
C2_AutoReloadCount ==
    \A i \in Slots :
        (Live(i) /\ mTimers[i].behavior = "AutoReload" /\ hist[i].steady /\ Armed(hist[i])
                 /\ grid)
            => hist[i].fires = (mCurrent - hist[i].at) \div OnTicks(mTimers[i].period)

\* An auto-reload timer that expired three times in three periods, twice of
\* them in the latest call.
C2_Witness ==
    \E i \in Slots :
        /\ Live(i) /\ mTimers[i].behavior = "AutoReload" /\ hist[i].steady
        /\ hist[i].st = "started" /\ grid /\ mTimers[i].callback # 0
        /\ hist[i].fires = 3 /\ mCurrent = hist[i].at + 3 * mTimers[i].period
        /\ Cardinality({k \in Fires : log[k].who = i}) >= 2

(***************************************************************************)
(* C3.  When every amount is a multiple of the tick period, an auto-reload *)
(* timer with period P started at t0 expires at t0 + P, t0 + 2P, ... and   *)
(* at no other clock value: its k-th expiry is at t0 + k * P.              *)
(***************************************************************************)
C3_Claim ==
    \A k \in Fires :
        (log[k].behavior = "AutoReload" /\ log[k].h.steady /\ log[k].h.st = "started" /\ grid)
            => log[k].at = log[k].h.at + log[k].h.fires * log[k].period

(***************************************************************************)
(* C4.  A timer on which TimerStart, TimerReset or TimerChangePeriod was   *)
(* never called since its creation is inactive and does not expire, also   *)
(* when callbacks create and delete timers.  (SpecReentrant.)              *)
(***************************************************************************)
C4_Claim ==
    \A i \in Slots :
        (Live(i) /\ hist[i].st = "fresh")
            => /\ mTimers[i].next = 0
               /\ hist[i].fires = 0

(***************************************************************************)
(* C5.  A timer whose expiry was last anchored at clock value t with       *)
(* period P does not expire while the clock is below t + P.                *)
(***************************************************************************)
C5_NotBeforeDue ==
    /\ \A k \in Fires : log[k].at >= log[k].h.anchor + log[k].period
    /\ \A i \in Slots :
          (Live(i) /\ Armed(hist[i]) /\ mCurrent < hist[i].at + mTimers[i].period)
              => hist[i].fires = 0

\* An auto-reload timer expired in the latest call, and the clock is now one
\* short of its next expiry.
C5_Witness ==
    \E i \in Slots :
        /\ Live(i) /\ mTimers[i].next # 0
        /\ mCurrent = hist[i].anchor + mTimers[i].period - 1
        /\ \E k \in Fires : log[k].who = i /\ log[k].at = hist[i].anchor /\ log[k].invoked

(***************************************************************************)
(* C6.  A call of MoveTimeForward/Tick runs every function pended before   *)
(* it exactly once, with its context and parameter, in the order of        *)
(* pending, before it moves the clock and before any timer expires.        *)
(* (SpecPend.  A step that empties the queue or moves the clock is such a  *)
(* call; an entry whose function is nullptr has nothing to run.)           *)
(***************************************************************************)
HasFunction(internal) == internal.func # 0

C6_PendedRunFirst ==
    [][(mCurrent' # mCurrent \/ (mPendQueue # <<>> /\ mPendQueue' = <<>>)) =>
          LET pended == SelectSeq(mPendQueue, HasFunction)
          IN /\ mPendQueue' = <<>>
             /\ Len(log') >= Len(pended)
             /\ \A k \in 1..Len(pended) :
                   /\ log'[k].kind = "pend"
                   /\ log'[k].who = pended[k].func
                   /\ log'[k].context = pended[k].context
                   /\ log'[k].param2 = pended[k].param2
                   /\ log'[k].at = mCurrent
             /\ \A k \in (Len(pended) + 1)..Len(log') :
                   log'[k].kind = "fire" /\ log'[k].at > mCurrent
      ]_vars

\* The latest call ran two pended functions that differ in context and in
\* parameter, and a timer expired after them.
C6_Witness ==
    /\ Len(log) >= 3
    /\ log[1].kind = "pend" /\ log[2].kind = "pend"
    /\ log[1].context # log[2].context /\ log[1].param2 # log[2].param2
    /\ log[3].kind = "fire" /\ log[3].invoked
    /\ mPendQueue = <<>>

(***************************************************************************)
(* C7.  After TimerStop the timer is not active and does not expire until  *)
(* it is started again.                                                    *)
(***************************************************************************)
C7_StoppedStaysSilent ==
    \A i \in Slots :
        (Live(i) /\ hist[i].st = "stopped")
            => /\ ~TimerIsActive(Eng, i).ret
               /\ mTimers[i].next = 0
               /\ hist[i].fires = 0

\* A timer stopped after time had moved, with more than its period moved since.
C7_Witness ==
    \E i \in Slots :
        /\ Live(i) /\ hist[i].st = "stopped" /\ hist[i].at > 0
        /\ mCurrent >= hist[i].at + 2 * mTimers[i].period

(***************************************************************************)
(* C8.  TimerStart and TimerReset on a live timer both return true and set *)
(* the expiry to now + period, whatever the timer's state; the earlier     *)
(* schedule is gone, and the timer expires next at the new expiry.         *)
(***************************************************************************)
\* What both calls do, found in every reachable state of a live timer, and the
\* expiry of a started timer that has not expired yet.
C8_Effect ==
    \A i \in Slots :
        Live(i) =>
            /\ TimerStart(Eng, i).ret = TRUE
            /\ TimerReset(Eng, i).ret = TRUE
            /\ TimerStart(Eng, i).e.mTimers =
                   [mTimers EXCEPT ![i].next = mCurrent + mTimers[i].period]
            /\ TimerReset(Eng, i).e.mTimers =
                   [mTimers EXCEPT ![i].next = mCurrent + mTimers[i].period]
            /\ TimerStart(Eng, i).e.mCurrent = mCurrent
            /\ TimerReset(Eng, i).e.mCurrent = mCurrent
            /\ (hist[i].st = "started" /\ hist[i].fires = 0)
                   => mTimers[i].next = hist[i].at + mTimers[i].period

\* The first expiries after a start, in the latest call.
FirstFires == {k \in Fires : log[k].h.st = "started" /\ log[k].h.fires = 1}

\* C8 as stated: the first expiry after the start is at now + period (here
\* already with a period on the tick grid).
C8_Original ==
    /\ C8_Effect
    /\ \A k \in FirstFires :
          log[k].period % mSysTickPeriod = 0 => log[k].at = log[k].h.at + log[k].period

\* C8 as amended: the first expiry after the start is at the first clock value
\* that a step of MoveTimeForward reaches at or after now + period, which is
\* now + period when the amounts and the period are multiples of the tick
\* period.
C8_StartResetRearm ==
    /\ C8_Effect
    /\ \A k \in FirstFires :
          /\ log[k].prev < log[k].h.at + log[k].period
          /\ log[k].h.at + log[k].period <= log[k].at
          /\ (grid /\ log[k].period % mSysTickPeriod = 0)
                 => log[k].at = log[k].h.at + log[k].period

\* A timer started after time had moved expired in the latest call, at its
\* start plus its period, and not for the first time since it was created.
C8_Witness ==
    \E k \in FirstFires :
        /\ log[k].h.at > 0 /\ log[k].invoked
        /\ log[k].at = log[k].h.at + log[k].period
        /\ log[k].h.startFires = 1

(***************************************************************************)
(* C9.  TimerChangePeriod on a live timer: with newPeriod > 0 it returns   *)
(* true, sets the period and sets the expiry to now + newPeriod, whether   *)
(* the timer was running or not; with newPeriod <= 0 it returns false and  *)
(* changes nothing.  (SpecCalls: last is the call, last.pre what it found.)*)
(***************************************************************************)
WasLive(i) == i \in 1..Len(last.pre.mTimers) /\ last.pre.mTimers[i].allocated

C9_ChangePeriod ==
    (last.op = "TimerChangePeriod" /\ WasLive(last.args[1])) =>
        LET handle == last.args[1]
            newPeriod == last.args[2]
        IN IF newPeriod > 0
           THEN /\ last.ret = TRUE
                /\ mTimers = [last.pre.mTimers EXCEPT
                                 ![handle].period = newPeriod,
                                 ![handle].next = last.pre.mCurrent + newPeriod]
                /\ TimerIsActive(Eng, handle).ret
                /\ mCurrent = last.pre.mCurrent
           ELSE /\ last.ret = FALSE
                /\ mTimers = last.pre.mTimers
                /\ mCurrent = last.pre.mCurrent

\* The period of a running auto-reload timer was changed after time had
\* moved: the expiry it had is replaced.
C9_Witness ==
    /\ last.op = "TimerChangePeriod" /\ WasLive(last.args[1]) /\ last.ret = TRUE
    /\ last.pre.mCurrent > 0
    /\ LET was == last.pre.mTimers[last.args[1]]
       IN /\ was.behavior = "AutoReload"
          /\ was.next # 0
          /\ was.period # last.args[2]
          /\ mTimers[last.args[1]].next # was.next

(***************************************************************************)
(* C10.  TimerCreate with a period that is zero, negative or no multiple   *)
(* of the tick period returns handle 0 and leaves the registry as it was.  *)
(***************************************************************************)
C10_CreateRejectsPeriod ==
    (last.op = "TimerCreate"
        /\ (last.args[2] <= 0 \/ last.args[2] % mSysTickPeriod # 0)) =>
        /\ last.ret = 0
        /\ mTimers = last.pre.mTimers
        /\ Len(mTimers) = Len(last.pre.mTimers)

\* A period above zero and off the tick grid was refused while a slot was free.
C10_Witness ==
    /\ last.op = "TimerCreate" /\ last.ret = 0
    /\ last.args[2] > 0 /\ last.args[2] % mSysTickPeriod # 0
    /\ \E i \in Slots : ~mTimers[i].allocated

(***************************************************************************)
(* C11.  A successful TimerCreate returns a handle that is not zero, is    *)
(* the slot's index plus one and differs from the handle of every timer    *)
(* live at that moment; every allocated slot i stores handle i + 1 (here   *)
(* slot i of the 1-based sequence stores i).  (SpecRegistry.)              *)
(***************************************************************************)
C11_Handles ==
    /\ \A i \in Slots : mTimers[i].allocated => mTimers[i].handle = i
    /\ (last.op = "TimerCreate" /\ last.ret # 0) =>
          /\ last.ret \in Slots
          /\ mTimers[last.ret].allocated /\ mTimers[last.ret].handle = last.ret
          /\ \A j \in 1..Len(last.pre.mTimers) :
                IF last.pre.mTimers[j].allocated
                THEN /\ last.pre.mTimers[j].handle # last.ret
                     /\ mTimers[j] = last.pre.mTimers[j]
                ELSE j >= last.ret

\* A timer was created in the slot a deleted timer left, while the timer
\* after it is live.
C11_Witness ==
    /\ last.op = "TimerCreate" /\ last.ret = 1
    /\ Len(mTimers) = 2 /\ mTimers[2].allocated /\ mTimers[2].handle = 2

(***************************************************************************)
(* C12.  TimerDelete(h) returns false and changes nothing when h is 0 or   *)
(* above the number of slots; for every other h it returns true, also when *)
(* the slot is not allocated, and the slot is as constructed afterwards.   *)
(* (SpecRegistry.)                                                         *)
(***************************************************************************)
C12_Delete ==
    last.op = "TimerDelete" =>
        LET handle == last.args[1]
        IN /\ fault = "none"
           /\ mCurrent = last.pre.mCurrent
           /\ IF handle = 0 \/ handle > Len(last.pre.mTimers)
              THEN last.ret = FALSE /\ mTimers = last.pre.mTimers
              ELSE last.ret = TRUE /\ mTimers = [last.pre.mTimers EXCEPT ![handle] = Timer]

\* The second of two slots was deleted when it held no timer, beside a live
\* timer: the call returned true.
C12_Witness ==
    /\ last.op = "TimerDelete" /\ last.args[1] = 2 /\ last.ret = TRUE
    /\ Len(last.pre.mTimers) = 2
    /\ ~last.pre.mTimers[2].allocated
    /\ mTimers[1].allocated

(***************************************************************************)
(* C13.  Every operation that takes a handle returns false, and none       *)
(* reports success, for a handle whose slot is not allocated.  (SpecCalls.)*)
(***************************************************************************)
Mutators == {"TimerStart", "TimerStop", "TimerReset", "TimerChangePeriod",
             "TimerSetBehavior", "TimerSetContext"}

\* The handle of the latest call names a slot of the registry, with no timer.
Unallocated(handle) ==
    /\ handle \in 1..Len(last.pre.mTimers)
    /\ ~last.pre.mTimers[handle].allocated

C13_Claim ==
    (last.op \in Mutators \cup {"TimerDelete"} /\ Unallocated(last.args[1]))
        => last.ret = FALSE /\ fault = "none"

(***************************************************************************)
(* C14.  A mutator given an invalid handle (0, beyond the slots, or of a   *)
(* slot not allocated) returns false and leaves registry and clock as they *)
(* were; it does not end in a failed assertion.  (SpecCalls.)              *)
(***************************************************************************)
C14_Claim ==
    (last.op \in Mutators
        /\ (last.args[1] = 0 \/ last.args[1] > Len(last.pre.mTimers)
               \/ Unallocated(last.args[1])))
        => /\ fault = "none"
           /\ last.ret = FALSE
           /\ mTimers = last.pre.mTimers
           /\ mCurrent = last.pre.mCurrent

(***************************************************************************)
(* C15.  TimerIsActive(h) is true exactly when the slot is allocated and   *)
(* its expiry is not zero: false after creation, true after TimerStart,    *)
(* false once a single-shot timer has expired, false after TimerStop, and  *)
(* false, with no failed assertion, for a slot that holds no timer.        *)
(***************************************************************************)
C15_IsActive ==
    \A i \in Slots :
        LET r == TimerIsActive(Eng, i)
        IN /\ r.e.fault = fault
           /\ r.ret = (mTimers[i].allocated /\ mTimers[i].next # 0)
           /\ ~mTimers[i].allocated => r.ret = FALSE
           /\ (Live(i) /\ hist[i].st = "fresh") => r.ret = FALSE
           /\ (Live(i) /\ hist[i].st = "started" /\ hist[i].fires = 0) => r.ret = TRUE
           /\ (Live(i) /\ hist[i].st = "started" /\ hist[i].steady
                       /\ mTimers[i].behavior = "AutoReload") => r.ret = TRUE
           /\ (Live(i) /\ hist[i].steady /\ mTimers[i].behavior = "SingleShot"
                       /\ hist[i].fires > 0) => r.ret = FALSE
           /\ (Live(i) /\ hist[i].st = "stopped") => r.ret = FALSE

\* A single-shot timer was started after time had moved, has expired, and is
\* reported inactive.
C15_Witness ==
    \E i \in Slots :
        /\ Live(i) /\ mTimers[i].behavior = "SingleShot" /\ hist[i].steady
        /\ hist[i].st = "started" /\ hist[i].at > 0 /\ hist[i].fires = 1
        /\ TimerIsActive(Eng, i).ret = FALSE

(***************************************************************************)
(* C16.  For a live timer TimerGetExpiryTime returns the clock value of    *)
(* its next expiry while it is active, and -1 when it is not: never        *)
(* started, stopped, or a single-shot timer that has expired.              *)
(***************************************************************************)
\* What the call returns, in every reachable state of a live timer.
C16_Returned ==
    \A i \in Slots :
        Live(i) =>
            LET r == TimerGetExpiryTime(Eng, i)
            IN /\ r.e.fault = fault
               /\ r.e.mTimers = mTimers
               /\ IF TimerIsActive(Eng, i).ret
                  THEN r.ret = mTimers[i].next /\ r.ret >= 0 /\ r.ret > mCurrent
                  ELSE r.ret = -1
               /\ hist[i].st \in {"fresh", "stopped"} => r.ret = -1
               /\ (hist[i].steady /\ mTimers[i].behavior = "SingleShot" /\ hist[i].fires > 0)
                      => r.ret = -1

\* C16 as stated: a timer expires at the clock value that was its expiry
\* time (here already with a period on the tick grid).
C16_Original ==
    /\ C16_Returned
    /\ \A k \in Fires :
          log[k].period % mSysTickPeriod = 0 => log[k].at = log[k].next

\* C16 as amended: a timer expires at the first clock value that a step of
\* MoveTimeForward reaches at or after its expiry time, which is the expiry
\* time when the amounts and the period are multiples of the tick period.
C16_ExpiryTime ==
    /\ C16_Returned
    /\ \A k \in Fires :
          /\ log[k].prev < log[k].next
          /\ log[k].next <= log[k].at
          /\ (grid /\ log[k].period % mSysTickPeriod = 0) => log[k].at = log[k].next

\* An auto-reload timer expired in the latest call at the expiry time it
\* had, and now has a later one; it had been started after time had moved.
C16_Witness ==
    \E i \in Slots :
        /\ Live(i) /\ hist[i].st = "started" /\ hist[i].at > 0
        /\ TimerGetExpiryTime(Eng, i).ret > mCurrent
        /\ \E k \in Fires :
              /\ log[k].who = i /\ log[k].invoked
              /\ log[k].at = log[k].next
              /\ TimerGetExpiryTime(Eng, i).ret = log[k].next + mTimers[i].period

(***************************************************************************)
(* C17.  The clock starts at zero, never goes back, is changed by          *)
(* MoveTimeForward and Tick only, and a MoveTimeForward(amount) with       *)
(* amount > 0 adds exactly amount to it (Tick: one tick period), whatever  *)
(* timers expire in the call.  (SpecCalls.)                                *)
(***************************************************************************)
C17_Clock ==
    LET now == GetCurrentInternalTime(Eng).ret
        before == last.pre.mCurrent
    IN /\ last.op = "FakeTimers" => now = 0
       /\ now >= before /\ before >= 0
       /\ last.op \notin {"MoveTimeForward", "Tick"} => now = before
       /\ last.op = "MoveTimeForward" =>
             now = IF last.args[1] > 0 THEN before + last.args[1] ELSE before
       /\ last.op = "Tick" => now = before + mSysTickPeriod

\* An amount that is no multiple of the tick period was added to a clock that
\* had moved, and a timer expired in the call.
C17_Witness ==
    /\ last.op = "MoveTimeForward" /\ last.args[1] = mSysTickPeriod + 1
    /\ last.pre.mCurrent > 0
    /\ mCurrent = last.pre.mCurrent + mSysTickPeriod + 1
    /\ \E k \in Fires : log[k].invoked

(***************************************************************************)
(* C18.  MoveTimeForward(amount) with amount zero or negative does         *)
(* nothing: clock, timer slots and queue of pended calls are as before,    *)
(* no callback and no pended function is invoked.  (SpecPend; the call is  *)
(* made in every reachable state in which the process is alive.)           *)
(***************************************************************************)
NoAmounts == {t \in Amounts : t <= 0}

\* C18 as stated.
C18_Original ==
    fault = "none" =>
        \A t \in NoAmounts :
            LET r == MoveTimeForward(Eng, t).e
            IN /\ r.mCurrent = mCurrent
               /\ r.mTimers = mTimers
               /\ r.mPendQueue = mPendQueue
               /\ r.log = <<>>

\* C18 as amended: clock and timer slots are as before and no timer callback
\* is invoked, but the queue of pended calls is drained, every function in it
\* invoked in order.
C18_NoAdvance ==
    fault = "none" =>
        \A t \in NoAmounts :
            LET r == MoveTimeForward(Eng, t).e
                pended == SelectSeq(mPendQueue, HasFunction)
            IN /\ r.fault = "none"
               /\ r.mCurrent = mCurrent
               /\ r.mTimers = mTimers
               /\ r.mPendQueue = <<>>
               /\ Len(r.log) = Len(pended)
               /\ \A k \in 1..Len(pended) : r.log[k] = PendEvent(Eng, pended[k])

\* The latest call ran a pended function and left the clock, which had moved
\* before, where it was, with a timer running.
C18_Witness ==
    /\ log # <<>> /\ log[1].kind = "pend" /\ log[1].at = mCurrent
    /\ \A k \in 1..Len(log) : log[k].kind = "pend"
    /\ mCurrent > 0 /\ mPendQueue = <<>>
    /\ \E i \in Slots : Live(i) /\ mTimers[i].next # 0

(***************************************************************************)
(* C19.  TimerGetContext returns the context given to TimerCreate or to    *)
(* the latest successful TimerSetContext, and a callback is called with    *)
(* the handle of its timer and the context the timer has at that moment.   *)
(* (SpecCalls.)                                                            *)
(***************************************************************************)
C19_Context ==
    /\ (last.op = "TimerCreate" /\ last.ret # 0) =>
          TimerGetContext(Eng, last.ret) = R(Eng, last.args[4])
    /\ (last.op = "TimerSetContext" /\ last.ret = TRUE) =>
          TimerGetContext(Eng, last.args[1]) = R(Eng, last.args[2])
    /\ \A i \in Slots :
          (Live(i) /\ WasLive(i)
                   /\ ~(last.op = "TimerSetContext" /\ last.ret = TRUE /\ last.args[1] = i))
              => TimerGetContext(Eng, i) = R(Eng, last.pre.mTimers[i].context)
    /\ \A k \in Fires :
          /\ WasLive(log[k].who)
          /\ last.pre.mTimers[log[k].who].handle = log[k].who
          /\ log[k].context = last.pre.mTimers[log[k].who].context
          /\ log[k].invoked = (last.pre.mTimers[log[k].who].callback # 0)

\* A callback was called with a context that is not the default, which
\* TimerGetContext returns too.
C19_Witness ==
    /\ last.op = "MoveTimeForward"
    /\ \E k \in Fires :
          /\ log[k].invoked /\ log[k].context = MaxContext
          /\ TimerGetContext(Eng, log[k].who).ret = MaxContext

(***************************************************************************)
(* C20.  The period of every allocated timer is a positive multiple of the *)
(* tick period, after any TimerCreate and TimerChangePeriod calls.         *)
(***************************************************************************)
C20_Claim ==
    \A i \in Slots :
        mTimers[i].allocated =>
            mTimers[i].period > 0 /\ mTimers[i].period % mSysTickPeriod = 0

(***************************************************************************)
(* C21.  An attribute accessor called with the handle of a slot that holds *)
(* no timer ends in a failed assertion; it returns no value.  (The         *)
(* accessors are called in every reachable state of SpecRegistry in which  *)
(* the process is alive.)                                                  *)
(***************************************************************************)
AccessorFaults(handle) ==
    {TimerGetContext(Eng, handle).e.fault, TimerGetName(Eng, handle).e.fault,
     TimerGetPeriod(Eng, handle).e.fault, TimerGetBehavior(Eng, handle).e.fault,
     TimerGetExpiryTime(Eng, handle).e.fault}

C21_AccessorsAssert ==
    fault = "none" =>
        \A i \in Slots :
            IF mTimers[i].allocated
            THEN /\ AccessorFaults(i) = {"none"}
                 /\ TimerGetContext(Eng, i) = R(Eng, mTimers[i].context)
                 /\ TimerGetName(Eng, i) = R(Eng, mTimers[i].name)
                 /\ TimerGetPeriod(Eng, i) = R(Eng, mTimers[i].period)
                 /\ TimerGetBehavior(Eng, i) = R(Eng, mTimers[i].behavior)
            ELSE AccessorFaults(i) = {"assert"}

\* The timer of the second slot was deleted beside a live timer: the
\* accessors fail for the one and answer for the other.
C21_Witness ==
    /\ fault = "none"
    /\ last.op = "TimerDelete" /\ last.args[1] = 2 /\ last.ret = TRUE
    /\ Len(last.pre.mTimers) = 2 /\ last.pre.mTimers[2].allocated
    /\ mTimers[1].allocated
    /\ TimerGetPeriod(Eng, 2).e.fault = "assert"
    /\ TimerGetPeriod(Eng, 1) = R(Eng, mTimers[1].period)

(***************************************************************************)
(* C22.  As the claim states it: a function that a pended function pends   *)
(* while the queue is drained is not run in that drain; it is in the       *)
(* queue when the advance call returns.                                    *)
(***************************************************************************)
Advanced == last.op \in {"MoveTimeForward", "Tick"} /\ fault = "none"
Pends == {k \in 1..Len(log) : log[k].kind = "pend"}
\* The entries of a queue that hold a function, and what pended function 2
\* pends for each of its entries.
RECURSIVE Functions(_)
Functions(queue) ==
    IF queue = <<>> THEN <<>>
    ELSE IF Head(queue).func # 0 THEN <<Head(queue)>> \o Functions(Tail(queue))
    ELSE Functions(Tail(queue))
RECURSIVE Spawned(_)
Spawned(queue) ==
    IF queue = <<>> THEN <<>>
    ELSE IF Head(queue).func \in ReentrantPendables
         THEN <<[Head(queue) EXCEPT !.func = 1]>> \o Spawned(Tail(queue))
    ELSE Spawned(Tail(queue))

C22_Original ==
    Advanced =>
        /\ mPendQueue = Spawned(last.pre.mPendQueue)
        /\ Cardinality(Pends) = Len(Functions(last.pre.mPendQueue))

(***************************************************************************)
(* C22, as the code has it: the drain goes on until the queue is empty, so *)
(* a function pended during the drain is run in that same drain, once the  *)
(* entries that were queued before it have been run; nothing is left for   *)
(* the next advance call.                                                  *)
(***************************************************************************)
C22_PendedInDrainRuns ==
    Advanced =>
        LET ran == Functions(last.pre.mPendQueue) \o Spawned(last.pre.mPendQueue)
        IN /\ mPendQueue = <<>>
           /\ Cardinality(Pends) = Len(ran)
           /\ \A k \in 1..Len(ran) :
                 /\ log[k].kind = "pend"
                 /\ <<log[k].who, log[k].context, log[k].param2>>
                        = <<ran[k].func, ran[k].context, ran[k].param2>>
                 /\ log[k].at = last.pre.mCurrent

\* Function 2 was queued before function 1 with other arguments: the
\* function it pended ran last, in the same call.
C22_Witness ==
    /\ Advanced
    /\ Len(last.pre.mPendQueue) = 2
    /\ last.pre.mPendQueue[1].func = 2 /\ last.pre.mPendQueue[2].func = 1
    /\ last.pre.mPendQueue[1].context # last.pre.mPendQueue[2].context
    /\ Cardinality(Pends) = 3
    /\ log[3].context = last.pre.mPendQueue[1].context
    /\ mPendQueue = <<>>

(***************************************************************************)
(* C23.  What a callback does to its own timer holds once the sweep step   *)
(* has ended: a timer stopped by its callback is inactive and does not     *)
(* expire until it is started again, and the slot of a timer deleted by    *)
(* its callback holds no timer and has every field at its default.         *)
(* (SpecReentrant.)                                                        *)
(***************************************************************************)
C23_Claim ==
    \A i \in Slots :
        /\ (Live(i) /\ hist[i].st = "stopped")
              => /\ mTimers[i].next = 0
                 /\ hist[i].fires = 0
        /\ ~mTimers[i].allocated => mTimers[i] = Timer

(***************************************************************************)
(* C24.  A TimerCreate that finds every slot allocated appends exactly one *)
(* slot and puts the new timer there; the timers that were live keep their *)
(* slots and every field.  No other call changes the number of slots, and  *)
(* no call lowers it.  (SpecRegistry.)                                     *)
(***************************************************************************)
C24_Growth ==
    LET before == last.pre.mTimers
        full == \A j \in 1..Len(before) : before[j].allocated
    IN /\ Len(mTimers) >= Len(before)
       /\ IF last.op = "TimerCreate" /\ last.ret # 0 /\ full
          THEN /\ Len(mTimers) = Len(before) + 1
               /\ last.ret = Len(mTimers)
               /\ mTimers[last.ret] =
                     [name |-> last.args[1], period |-> last.args[2],
                      behavior |-> last.args[3], context |-> last.args[4],
                      callback |-> last.args[5], allocated |-> TRUE,
                      handle |-> last.ret, next |-> 0]
               /\ \A j \in 1..Len(before) : mTimers[j] = before[j]
          ELSE Len(mTimers) = Len(before)

\* The registry grew while its timer was active; the two timers differ in
\* every attribute the driver can vary.
C24_Witness ==
    /\ last.op = "TimerCreate" /\ last.ret = 2
    /\ Len(last.pre.mTimers) = 1 /\ Len(mTimers) = 2
    /\ mTimers[1].allocated /\ mTimers[1].next > 0
    /\ mTimers[1].period # mTimers[2].period
    /\ mTimers[1].behavior # mTimers[2].behavior
    /\ mTimers[1].context # mTimers[2].context
    /\ mTimers[1].callback # mTimers[2].callback

(***************************************************************************)
(* C25.  The expiries of one advance call are in the order of the clock    *)
(* values, and those at one clock value in the order of the handles,       *)
(* whatever the order in which the timers were started and whatever their  *)
(* expiries were.  (SpecSweep.)                                            *)
(***************************************************************************)
C25_AscendingSlots ==
    \A k, l \in Fires :
        k < l =>
            \/ log[k].at < log[l].at
            \/ log[k].at = log[l].at /\ log[k].who < log[l].who

\* Two timers expired at one clock value, handle 1 before handle 2, though
\* handle 2 was started first and had the earlier expiry.
C25_Witness ==
    \E k, l \in Fires :
        /\ k < l /\ log[k].at = log[l].at
        /\ log[k].who = 1 /\ log[l].who = 2
        /\ log[k].invoked /\ log[l].invoked
        /\ log[l].h.at < log[k].h.at
        /\ log[l].next < log[k].next

(***************************************************************************)
(* C26.  As the claim states it: whenever a timer expires the clock value  *)
(* is the timer's expiry, whatever amounts moved the time (here already    *)
(* with a period on the tick grid).                                        *)
(***************************************************************************)
C26_Original ==
    \A k \in Fires :
        log[k].period % mSysTickPeriod = 0 => log[k].at = log[k].next

(***************************************************************************)
(* C26, as the code has it: a timer expires at the first clock value a     *)
(* step reaches at or after its expiry, less than one tick period after    *)
(* it.  When every amount was a multiple of the tick period and the        *)
(* timer's period is one, that clock value is the expiry itself, and the   *)
(* k-th expiry of an auto-reload timer started at t0 is at t0 + k * P.     *)
(***************************************************************************)
C26_WithinOneTick ==
    \A k \in Fires :
        /\ log[k].next <= log[k].at
        /\ log[k].at - log[k].next < mSysTickPeriod
        /\ (grid /\ log[k].period % mSysTickPeriod = 0) =>
              /\ log[k].at = log[k].next
              /\ (log[k].behavior = "AutoReload" /\ log[k].h.steady /\ log[k].h.st = "started")
                    => log[k].at = log[k].h.at + log[k].h.fires * log[k].period

\* An auto-reload timer started after time had moved expired for the second
\* time, on its expiry, two periods after the start.
C26_Witness ==
    \E k \in Fires :
        /\ log[k].invoked /\ log[k].behavior = "AutoReload" /\ log[k].h.steady
        /\ log[k].h.st = "started" /\ log[k].h.at > 0 /\ grid
        /\ log[k].h.fires = 2
        /\ log[k].at = log[k].next
        /\ log[k].at = log[k].h.at + 2 * log[k].period

(***************************************************************************)
(* C27.  MoveTimeForward(amount) takes ceil(amount / tick) steps of        *)
(* min(remaining, tick), each followed by a sweep.  With nothing pended    *)
(* and callbacks that pend nothing, MoveTimeForward(n * tick) leaves the   *)
(* object as n calls of Tick do, with the same expiries at the same clock  *)
(* values in the same order; Tick is the case n = 1.  (Both are applied in *)
(* every reachable state of Spec in which the process is alive.)           *)
(***************************************************************************)
\* n calls of Tick, the expiries of all of them in one log.
RECURSIVE Ticks(_, _)
Ticks(e, n) ==
    IF n = 0 THEN [e EXCEPT !.log = <<>>]
    ELSE LET before == Ticks(e, n - 1)
             ticked == Tick(before).e
         IN [ticked EXCEPT !.log = before.log \o ticked.log]

C27_StepsAndTicks ==
    (fault = "none" /\ mPendQueue = <<>>) =>
        /\ \A time \in Amounts :
              LET steps == MoveTimeForward(Eng, time).e.steps
                  sweeps == IF time > 0
                            THEN (time + mSysTickPeriod - 1) \div mSysTickPeriod ELSE 0
              IN /\ Len(steps) = sweeps
                 /\ \A j \in 1..sweeps :
                       steps[j] = Min(time - (j - 1) * mSysTickPeriod, mSysTickPeriod)
        /\ \A n \in 1..(MaxAdvance \div SysTickPeriod) :
              MoveTimeForward(Eng, n * mSysTickPeriod).e = Ticks(Eng, n)
        /\ Tick(Eng) = MoveTimeForward(Eng, mSysTickPeriod)

\* After an advance call in which the timer expired: an auto-reload timer
\* with one tick as period is active, and two ticks make its callback run
\* twice, at two clock values.
C27_Witness ==
    /\ fault = "none" /\ mCurrent > 0 /\ Fires # {}
    /\ \E i \in Slots :
          /\ Live(i) /\ mTimers[i].behavior = "AutoReload" /\ mTimers[i].callback # 0
          /\ mTimers[i].next = mCurrent + mSysTickPeriod
          /\ mTimers[i].period = mSysTickPeriod
    /\ LET ticked == Ticks(Eng, 2)
       IN /\ Len(ticked.log) = 2
          /\ ticked.log[1].at = mCurrent + mSysTickPeriod
          /\ ticked.log[2].at = mCurrent + 2 * mSysTickPeriod
          /\ ticked.log[2].invoked
          /\ ticked = MoveTimeForward(Eng, 2 * mSysTickPeriod).e

(***************************************************************************)
(* C28.  TimerDelete on a live timer puts the default in every field of    *)
(* the slot, the expiry too; a slot without a timer never expires, however *)
(* far time is moved; and a timer created in the slot has the attributes   *)
(* given to TimerCreate, is not active and has no expiry.  (SpecCalls.)    *)
(***************************************************************************)
C28_DeleteClears ==
    /\ (last.op = "TimerDelete" /\ WasLive(last.args[1])) =>
          /\ last.ret = TRUE
          /\ mTimers = [last.pre.mTimers EXCEPT ![last.args[1]] = Timer]
    /\ \A i \in Slots : ~mTimers[i].allocated => mTimers[i] = Timer
    /\ fault = "none" =>
          \A time \in Amounts :
              LET moved == MoveTimeForward(Eng, time).e
              IN \A k \in 1..Len(moved.log) :
                    moved.log[k].kind = "fire" => Live(moved.log[k].who)
    /\ \A k \in Fires : WasLive(log[k].who)
    /\ (last.op = "TimerCreate" /\ last.ret # 0) =>
          /\ mTimers[last.ret] =
                [name |-> last.args[1], period |-> last.args[2],
                 behavior |-> last.args[3], context |-> last.args[4],
                 callback |-> last.args[5], allocated |-> TRUE,
                 handle |-> last.ret, next |-> 0]
          /\ ~TimerIsActive(Eng, last.ret).ret

\* A running timer that the next tick would have made expire was deleted
\* after time had moved: the tick finds nothing to fire.
C28_Witness ==
    /\ last.op = "TimerDelete" /\ WasLive(last.args[1]) /\ fault = "none"
    /\ last.pre.mCurrent > 0
    /\ LET was == last.pre.mTimers[last.args[1]]
       IN /\ was.next > 0 /\ was.next <= last.pre.mCurrent + mSysTickPeriod
          /\ was.callback # 0
          /\ Tick([Eng EXCEPT !.mTimers = last.pre.mTimers]).e.log # <<>>
    /\ Tick(Eng).e.log = <<>>

(***************************************************************************)
(* C29.  TimerSetBehavior on a live timer returns true and changes the     *)
(* behavior, nothing else.  The behavior the timer has when it expires     *)
(* decides what follows: a running timer made single-shot expires once     *)
(* more, at the expiry it had, and is inactive from then on; a running     *)
(* timer made auto-reload expires again and again and stays active.        *)
(* (SpecCalls; from the state the call leaves, time is moved on by twice   *)
(* the longest period plus one tick, which two expiries cannot exceed.)    *)
(***************************************************************************)
C29_SetBehavior ==
    (last.op = "TimerSetBehavior" /\ WasLive(last.args[1])) =>
        LET handle == last.args[1]
            behavior == last.args[2]
            moved == MoveTimeForward(Eng, 2 * (MaxPeriod + mSysTickPeriod)).e
            mine == {k \in 1..Len(moved.log) : moved.log[k].who = handle}
        IN /\ last.ret = TRUE
           /\ mTimers = [last.pre.mTimers EXCEPT ![handle].behavior = behavior]
           /\ mCurrent = last.pre.mCurrent
           /\ mPendQueue = last.pre.mPendQueue
           /\ (fault = "none" /\ last.pre.mTimers[handle].next # 0) =>
                 /\ mine # {}
                 /\ \A k \in mine : moved.log[k].behavior = behavior
                 /\ \A k \in mine :
                       (\A l \in mine : k <= l) =>
                           /\ moved.log[k].next = last.pre.mTimers[handle].next
                           /\ moved.log[k].prev < moved.log[k].next
                           /\ moved.log[k].next <= moved.log[k].at
                 /\ IF behavior = "SingleShot"
                    THEN /\ Cardinality(mine) = 1
                         /\ moved.mTimers[handle].next = 0
                    ELSE /\ Cardinality(mine) >= 2
                         /\ moved.mTimers[handle].next > moved.mCurrent
                         /\ \A k \in mine :
                               \/ \E l \in mine :
                                     l > k /\ moved.log[l].next
                                                 = moved.log[k].at + mTimers[handle].period
                               \/ moved.mTimers[handle].next
                                     = moved.log[k].at + mTimers[handle].period

\* A running auto-reload timer was made single-shot after time had moved.
C29_Witness ==
    /\ last.op = "TimerSetBehavior" /\ WasLive(last.args[1]) /\ fault = "none"
    /\ last.pre.mCurrent > 0
    /\ last.pre.mTimers[last.args[1]].behavior = "AutoReload"
    /\ last.pre.mTimers[last.args[1]].next > 0
    /\ last.pre.mTimers[last.args[1]].callback # 0
    /\ last.args[2] = "SingleShot"
    /\ mTimers[last.args[1]].next = last.pre.mTimers[last.args[1]].next

(***************************************************************************)
(* C30.  Every call of MoveTimeForward and Tick begins by running the      *)
(* pended functions until the queue is empty, those pended meanwhile       *)
(* included: all of them run at the clock value the call found, the queue  *)
(* is empty when the clock is first moved and when the call returns, and   *)
(* this is so for an amount that is zero or negative too.                  *)
(* (SpecPendCalls.)                                                        *)
(***************************************************************************)
C30_DrainedFirst ==
    /\ fault = "none" =>
          /\ ExecutePendables(Eng).mPendQueue = <<>>
          /\ ExecutePendables(Eng).mCurrent = mCurrent
    /\ Advanced =>
          /\ mPendQueue = <<>>
          /\ \A k \in 1..Len(log) : log[k].kind = "pend" /\ log[k].at = last.pre.mCurrent
          /\ Len(log) = Len(Functions(last.pre.mPendQueue)) + Len(Spawned(last.pre.mPendQueue))
          /\ mCurrent = last.pre.mCurrent
                          + (IF last.op = "Tick" THEN mSysTickPeriod
                             ELSE IF last.args[1] > 0 THEN last.args[1] ELSE 0)

\* MoveTimeForward with an amount that moves no time, after time had moved,
\* found a function that pends a function: both ran, and the queue is empty.
C30_Witness ==
    /\ Advanced /\ last.op = "MoveTimeForward" /\ last.args[1] <= 0
    /\ last.pre.mCurrent > 0 /\ mCurrent = last.pre.mCurrent
    /\ Len(last.pre.mPendQueue) = 1 /\ last.pre.mPendQueue[1].func = 2
    /\ Len(log) = 2 /\ log[2].who = 1
    /\ mPendQueue = <<>>

(***************************************************************************)
(* C31.  Between the calls every active timer has its expiry after the     *)
(* current clock value: a sweep leaves no timer due, and TimerStart,       *)
(* TimerReset and TimerChangePeriod set the expiry in the future.          *)
(***************************************************************************)
C31_Claim ==
    fault = "none" =>
        \A i \in Slots :
            (Live(i) /\ TimerIsActive(Eng, i).ret) => mTimers[i].next > mCurrent

(***************************************************************************)
(* C32.  The expiry that follows a firing is set once the callback has     *)
(* returned, whatever the callback did to its own timer: a single-shot     *)
(* timer whose callback starts or resets it or changes its period is       *)
(* inactive when the advance call returns, has expired once in that call   *)
(* and does not expire however far time is moved after it.                 *)
(* (SpecSelfStart.)                                                        *)
(***************************************************************************)
C32_PolicyOverrides ==
    \A k \in Fires :
        log[k].behavior = "SingleShot" =>
            LET handle == log[k].who
                moved == MoveTimeForward(Eng, 2 * (MaxPeriod + mSysTickPeriod)).e
            IN /\ mTimers[handle].next = 0
               /\ ~TimerIsActive(Eng, handle).ret
               /\ \A l \in Fires : log[l].who = handle => l = k
               /\ fault = "none" =>
                     \A l \in 1..Len(moved.log) : moved.log[l].who # handle

\* The callback started the timer (the history has the start at the clock
\* value of the expiry), or gave it another period; the timer is inactive.
C32_Witness ==
    \E k \in Fires :
        /\ log[k].behavior = "SingleShot" /\ log[k].invoked
        /\ mTimers[log[k].who].callback \in SelfStartCallbacks
        /\ hist[log[k].who].st \in {"started", "reperiod"}
        /\ hist[log[k].who].at = log[k].at
        /\ log[k].at < mCurrent
        /\ mTimers[log[k].who].next = 0

(***************************************************************************)
(* C33.  TimerCreate takes the free slot of the lowest index, so the       *)
(* handle of a deleted timer is returned again by the next TimerCreate     *)
(* when no lower slot is free; a handle is the slot's index and nothing    *)
(* more, so a call made with a copy of it kept from before acts on the     *)
(* timer that is in the slot now.  (SpecRegistry.)                         *)
(***************************************************************************)
C33_HandleReissued ==
    /\ (last.op = "TimerCreate" /\ last.ret # 0) =>
          LET free == {j \in 1..Len(last.pre.mTimers) : ~last.pre.mTimers[j].allocated}
              handle == last.ret
          IN /\ IF free # {}
                THEN handle \in free /\ \A j \in free : handle <= j
                ELSE handle = Len(last.pre.mTimers) + 1
             /\ fault = "none" =>
                   /\ TimerGetPeriod(Eng, handle) = R(Eng, last.args[2])
                   /\ TimerGetContext(Eng, handle) = R(Eng, last.args[4])
                   /\ TimerStart(Eng, handle).ret = TRUE
                   /\ TimerStart(Eng, handle).e.mTimers
                         = [mTimers EXCEPT ![handle].next = mCurrent + last.args[2]]
                   /\ TimerStop(Eng, handle).ret = TRUE
                   /\ TimerDelete(Eng, handle).e.mTimers = [mTimers EXCEPT ![handle] = Timer]
    /\ (last.op = "TimerDelete" /\ WasLive(last.args[1]) /\ fault = "none"
            /\ \A j \in Slots : j < last.args[1] => mTimers[j].allocated) =>
          \A p \in Periods, b \in Behaviors, c \in Contexts, cb \in PlainCallbacks :
              PeriodAccepted(p) => TimerCreate(Eng, 1, p, b, c, cb).ret = last.args[1]

\* The first of two timers was deleted while the second was running, and
\* the next TimerCreate returned its handle for a timer with other
\* attributes: the handle now reads the new timer.
C33_Witness ==
    /\ last.op = "TimerCreate" /\ last.ret = 1 /\ fault = "none"
    /\ Len(mTimers) = 2 /\ mTimers[2].allocated /\ mTimers[2].next > 0
    /\ ~last.pre.mTimers[1].allocated
    /\ mTimers[1].next = 0
    /\ mTimers[1].behavior # mTimers[2].behavior
    /\ TimerGetContext(Eng, 1).ret = last.args[4]

(***************************************************************************)
(* C34.  What a callback does to the other timer counts in the same sweep  *)
(* for a higher slot only.  From every reachable state one sweep is made   *)
(* (an advance of at most one tick): when the timer of slot i expires and  *)
(* its callback stops or deletes the timer of slot j, a timer j > i that   *)
(* was due does not expire in the sweep, and a timer j < i that was due    *)
(* has expired before i; either way j is stopped or deleted at the end.    *)
(* (SpecOthers.)                                                           *)
(***************************************************************************)
\* Timer i passes the checks of ConsiderFiringTimer at clock value now.
DueAt(i, now) ==
    /\ Live(i) /\ mTimers[i].period > 0
    /\ mTimers[i].next > 0 /\ now >= mTimers[i].next

C34_HigherSlotsOnly ==
    fault = "none" =>
        \A delta \in 1..mSysTickPeriod :
            LET now == mCurrent + delta
                moved == MoveTimeForward(Eng, delta).e
                At_(i) == {k \in 1..Len(moved.log) : moved.log[k].who = i}
            IN \A i \in Slots :
                  LET j == Other(i)
                  IN (/\ At_(i) # {}
                      /\ mTimers[i].callback \in OtherTimerCallbacks
                      /\ j \in Slots /\ DueAt(j, now)) =>
                         /\ moved.fault = "none"
                         /\ IF j > i
                            THEN At_(j) = {}
                            ELSE \E k \in At_(j) : \A l \in At_(i) : k < l
                         /\ IF mTimers[i].callback = 9
                            THEN moved.mTimers[j] = [mTimers[j] EXCEPT !.next = 0]
                            ELSE moved.mTimers[j] = Timer

\* One tick made the first timer expire; its callback stopped the second
\* timer, which was due at that clock value and has not expired.
C34_Witness ==
    /\ fault = "none" /\ mCurrent > 0
    /\ Len(log) = 1 /\ log[1].who = 1 /\ log[1].at = mCurrent /\ log[1].invoked
    /\ Live(1) /\ mTimers[1].callback = 9
    /\ Live(2) /\ mTimers[2].callback # 0 /\ mTimers[2].next = 0
    /\ hist[2].st = "stopped" /\ hist[2].at = mCurrent
    /\ hist[2].anchor > 0 /\ hist[2].anchor + mTimers[2].period = mCurrent

(***************************************************************************)
(* C35.  The pended functions run at the clock value the advance call      *)
(* found.  From every reachable state with a pended function that starts   *)
(* a live timer, time is moved by every amount d: the timer's expiry is    *)
(* set to that clock value plus the period, and the timer expires in the   *)
(* same call if and only if period <= d, first with that expiry (in a     *)
(* call that no other pended function brings to an end by a failed         *)
(* assertion).  (SpecPendStart.)                                           *)
(***************************************************************************)
C35_StartedByPended ==
    fault = "none" =>
        \A n \in 1..Len(mPendQueue), d \in Amounts :
            LET handle == mPendQueue[n].param2
                moved == MoveTimeForward(Eng, d).e
                mine == {k \in 1..Len(moved.log) :
                            moved.log[k].kind = "fire" /\ moved.log[k].who = handle}
            IN (/\ mPendQueue[n].func \in StartingPendables /\ Live(handle)
                /\ moved.fault = "none") =>
                  /\ moved.hist[handle].anchor = mCurrent \/ mine # {}
                  /\ (mTimers[handle].period <= d) <=> (mine # {})
                  /\ mine = {} => moved.mTimers[handle].next = mCurrent + mTimers[handle].period
                  /\ \A k \in mine :
                        /\ \E l \in 1..(k - 1) :
                              /\ moved.log[l].kind = "pend" /\ moved.log[l].at = mCurrent
                              /\ moved.log[l].param2 = handle
                        /\ moved.log[k].h.at = mCurrent
                        /\ (\A l \in mine : k <= l) =>
                              moved.log[k].next = mCurrent + mTimers[handle].period

\* After an advance call made when time had moved: the function pended
\* started the timer at the clock value the call found, and the timer
\* expired in that call.
C35_Witness ==
    \E k, l \in 1..Len(log) :
        /\ k < l /\ log[k].kind = "pend" /\ log[l].kind = "fire"
        /\ log[k].who \in StartingPendables /\ log[l].who = log[k].param2
        /\ log[k].at > 0
        /\ log[l].h.st = "started" /\ log[l].h.at = log[k].at
        /\ log[l].next = log[k].at + log[l].period
        /\ log[l].invoked /\ log[l].at = mCurrent

(***************************************************************************)
(* C36.  Every call of MoveTimeForward returns: the drain ends, also when  *)
(* pended functions pend functions, and the stepping loop ends, also when  *)
(* callbacks create timers.  (SpecTermination.)                            *)
(***************************************************************************)
C36_Claim == (pc # "idle") ~> (pc = "idle")

====
